---- MODULE Spec2Model ----
(***************************************************************************)
(* A model of the voice companion front-end: the speech capture hook, the  *)
(* presentation layers that drive it, the saved chat sessions, the         *)
(* text-generation client and the audio playback adapter.  Strings that    *)
(* the code inspects (trim,                                                *)
(* toLowerCase, includes) are sequences of one-character strings, so that  *)
(* these operations are computed and not assumed.                          *)
(***************************************************************************)
EXTENDS Integers, Sequences, FiniteSets, TLC

(***************************************************************************)
(* Bounds of the model.                                                    *)
(***************************************************************************)
\* The longest user message, in fragments, handed to the generation client.
MaxFrags == 2

\* The most results one onresult event carries.
MaxResults == 1

\* The most timers of a kind, or permission requests, pending at once.
MaxPending == 1

\* The most asynchronous calls in flight at once.
MaxTasks == 2

\* The most runs of the API test dialog's handlers under way at once.
MaxRuns == 2

\* The most messages of a conversation.
MaxMessages == 2

\* The most round trips of the chat component in flight at once.
MaxInflight == 1

\* The latest time, in ticks of Date.now().
MaxNow == 3

(***************************************************************************)
(* String operations, as JavaScript computes them.                         *)
(***************************************************************************)
UpperChars ==
    <<"A", "B", "C", "D", "E", "F", "G", "H", "I", "J", "K", "L", "M",
      "N", "O", "P", "Q", "R", "S", "T", "U", "V", "W", "X", "Y", "Z">>

LowerChars ==
    <<"a", "b", "c", "d", "e", "f", "g", "h", "i", "j", "k", "l", "m",
      "n", "o", "p", "q", "r", "s", "t", "u", "v", "w", "x", "y", "z">>

\* String.prototype.toLowerCase on one character.
ToLowerChar(c) ==
    IF \E i \in 1..Len(UpperChars) : UpperChars[i] = c
    THEN LowerChars[CHOOSE i \in 1..Len(UpperChars) : UpperChars[i] = c]
    ELSE c

\* String.prototype.toLowerCase.
ToLowerCase(s) == [i \in 1..Len(s) |-> ToLowerChar(s[i])]

\* String.prototype.includes: k occurs in s as a contiguous substring.
Includes(s, k) ==
    \E i \in 0..(Len(s) - Len(k)) : SubSeq(s, i + 1, i + Len(k)) = k

IsSpace(c) == c \in {" ", "\t", "\n"}

RECURSIVE TrimStart(_)
TrimStart(s) ==
    IF s = <<>> THEN s
    ELSE IF IsSpace(Head(s)) THEN TrimStart(Tail(s)) ELSE s

RECURSIVE TrimEnd(_)
TrimEnd(s) ==
    IF s = <<>> THEN s
    ELSE IF IsSpace(s[Len(s)]) THEN TrimEnd(SubSeq(s, 1, Len(s) - 1)) ELSE s

\* String.prototype.trim.
Trim(s) == TrimEnd(TrimStart(s))

RECURSIVE Flatten(_)
\* The concatenation of a sequence of strings.
Flatten(ss) == IF ss = <<>> THEN <<>> ELSE Head(ss) \o Flatten(Tail(ss))

(***************************************************************************)
(* The state.                                                              *)
(***************************************************************************)
VARIABLES
    \* generateGeminiResponse
    gPc,        \* its position: "idle", "fetch", "returned", "threw"
    gUser,      \* its argument userMessage
    gFailed,    \* whether its try block threw
    gFetches,   \* the requests it has issued in the current call
    gValue,     \* the string it returned
    \* playAudioBuffer, one call followed on its own
    pb,         \* the playback
    pbClock,    \* milliseconds since the call
    \* the speech capture hook and the component on top of it
    hk,         \* the hook's React state: transcript, isListening, confidence
    ref,        \* the hook's refs: finalTranscript, isStarting, timeout
    eng,        \* the platform, the recognition object, timers and requests
    app,        \* the component's React state
    welcome,    \* the timer of the welcome greeting
    tasks,      \* the asynchronous calls in flight
    \* the conversation sessions of the chat component
    chat,       \* messages, sessions, currentSessionId, round trips in flight
    now,        \* Date.now()
    \* the configuration of the synthesis client
    cfg,        \* the stored entry and what the last call resolved
    \* the texts of the round trips of handleUserMessage
    rt,         \* isProcessing, lastResponse and the round trips under way
    \* the API test dialog
    modal       \* its state and the runs of its handlers under way

geminiVars == <<gPc, gUser, gFailed, gFetches, gValue>>

playVars == <<pb, pbClock>>

voiceVars == <<hk, ref, eng, app, welcome, tasks>>

chatVars == <<chat, now>>

configVars == <<cfg>>

rtVars == <<rt>>

modalVars == <<modal>>

vars == <<geminiVars, playVars, voiceVars, chatVars, configVars, rtVars, modalVars>>

(***************************************************************************)
(* The text-generation client (services/geminiService.ts).                 *)
(***************************************************************************)
KwVerse ==
    <<"v", "e", "r", "s", "e">>

KwScripture ==
    <<"s", "c", "r", "i", "p", "t", "u", "r", "e">>

KwPray ==
    <<"p", "r", "a", "y">>

KwPrayer ==
    <<"p", "r", "a", "y", "e", "r">>

KwHelp ==
    <<"h", "e", "l", "p">>

KwGuidance ==
    <<"g", "u", "i", "d", "a", "n", "c", "e">>

\* The four canned replies of the catch block.
FallbackJeremiah ==
    <<"I", "'", "m", " ", "h", "a", "v", "i", "n", "g", " ", "t", "r", "o", "u", "b", "l", "e",
      " ", "c", "o", "n", "n", "e", "c", "t", "i", "n", "g", " ", "r", "i", "g", "h", "t", " ",
      "n", "o", "w", ",", " ", "b", "u", "t", " ", "h", "e", "r", "e", "'", "s", " ", "a", " ",
      "b", "e", "a", "u", "t", "i", "f", "u", "l", " ", "v", "e", "r", "s", "e", ":", " ", "'",
      "F", "o", "r", " ", "I", " ", "k", "n", "o", "w", " ", "t", "h", "e", " ", "p", "l", "a",
      "n", "s", " ", "I", " ", "h", "a", "v", "e", " ", "f", "o", "r", " ", "y", "o", "u", ",",
      " ", "d", "e", "c", "l", "a", "r", "e", "s", " ", "t", "h", "e", " ", "L", "o", "r", "d",
      ",", " ", "p", "l", "a", "n", "s", " ", "t", "o", " ", "p", "r", "o", "s", "p", "e", "r",
      " ", "y", "o", "u", " ", "a", "n", "d", " ", "n", "o", "t", " ", "t", "o", " ", "h", "a",
      "r", "m", " ", "y", "o", "u", ",", " ", "t", "o", " ", "g", "i", "v", "e", " ", "y", "o",
      "u", " ", "h", "o", "p", "e", " ", "a", "n", "d", " ", "a", " ", "f", "u", "t", "u", "r",
      "e", ".", "'", " ", "-", " ", "J", "e", "r", "e", "m", "i", "a", "h", " ", "2", "9", ":",
      "1", "1">>

FallbackPhilippians ==
    <<"E", "v", "e", "n", " ", "w", "h", "e", "n", " ", "I", " ", "c", "a", "n", "'", "t", " ",
      "c", "o", "n", "n", "e", "c", "t", " ", "f", "u", "l", "l", "y", ",", " ", "r", "e", "m",
      "e", "m", "b", "e", "r", " ", "t", "h", "a", "t", " ", "G", "o", "d", " ", "h", "e", "a",
      "r", "s", " ", "y", "o", "u", "r", " ", "p", "r", "a", "y", "e", "r", "s", ".", " ", "'",
      "D", "o", " ", "n", "o", "t", " ", "b", "e", " ", "a", "n", "x", "i", "o", "u", "s", " ",
      "a", "b", "o", "u", "t", " ", "a", "n", "y", "t", "h", "i", "n", "g", ",", " ", "b", "u",
      "t", " ", "i", "n", " ", "e", "v", "e", "r", "y", " ", "s", "i", "t", "u", "a", "t", "i",
      "o", "n", ",", " ", "b", "y", " ", "p", "r", "a", "y", "e", "r", " ", "a", "n", "d", " ",
      "p", "e", "t", "i", "t", "i", "o", "n", ",", " ", "w", "i", "t", "h", " ", "t", "h", "a",
      "n", "k", "s", "g", "i", "v", "i", "n", "g", ",", " ", "p", "r", "e", "s", "e", "n", "t",
      " ", "y", "o", "u", "r", " ", "r", "e", "q", "u", "e", "s", "t", "s", " ", "t", "o", " ",
      "G", "o", "d", ".", "'", " ", "-", " ", "P", "h", "i", "l", "i", "p", "p", "i", "a", "n",
      "s", " ", "4", ":", "6">>

FallbackProverbs ==
    <<"I", "'", "m", " ", "e", "x", "p", "e", "r", "i", "e", "n", "c", "i", "n", "g", " ", "s",
      "o", "m", "e", " ", "c", "o", "n", "n", "e", "c", "t", "i", "o", "n", " ", "i", "s", "s",
      "u", "e", "s", ",", " ", "b", "u", "t", " ", "G", "o", "d", "'", "s", " ", "g", "u", "i",
      "d", "a", "n", "c", "e", " ", "i", "s", " ", "a", "l", "w", "a", "y", "s", " ", "a", "v",
      "a", "i", "l", "a", "b", "l", "e", ".", " ", "'", "T", "r", "u", "s", "t", " ", "i", "n",
      " ", "t", "h", "e", " ", "L", "o", "r", "d", " ", "w", "i", "t", "h", " ", "a", "l", "l",
      " ", "y", "o", "u", "r", " ", "h", "e", "a", "r", "t", " ", "a", "n", "d", " ", "l", "e",
      "a", "n", " ", "n", "o", "t", " ", "o", "n", " ", "y", "o", "u", "r", " ", "o", "w", "n",
      " ", "u", "n", "d", "e", "r", "s", "t", "a", "n", "d", "i", "n", "g", ".", "'", " ", "-",
      " ", "P", "r", "o", "v", "e", "r", "b", "s", " ", "3", ":", "5">>

FallbackGeneric ==
    <<"I", "'", "m", " ", "h", "a", "v", "i", "n", "g", " ", "t", "r", "o", "u", "b", "l", "e",
      " ", "c", "o", "n", "n", "e", "c", "t", "i", "n", "g", " ", "t", "o", " ", "p", "r", "o",
      "v", "i", "d", "e", " ", "y", "o", "u", " ", "w", "i", "t", "h", " ", "b", "i", "b", "l",
      "i", "c", "a", "l", " ", "g", "u", "i", "d", "a", "n", "c", "e", " ", "r", "i", "g", "h",
      "t", " ", "n", "o", "w", ".", " ", "P", "l", "e", "a", "s", "e", " ", "t", "r", "y", " ",
      "a", "g", "a", "i", "n", " ", "i", "n", " ", "a", " ", "m", "o", "m", "e", "n", "t", ".",
      " ", "R", "e", "m", "e", "m", "b", "e", "r", ",", " ", "G", "o", "d", " ", "i", "s", " ",
      "a", "l", "w", "a", "y", "s", " ", "w", "i", "t", "h", " ", "y", "o", "u", ".">>

\* Fragments the modelled user messages are built from.
Frags ==
    {<<"V", "e", "r", "s", "e">>,
     <<"S", "C", "R", "I", "P", "T", "U", "R", "E">>,
     <<"p", "r", "a", "y">>,
     <<"H", "e", "l", "p">>,
     <<"g", "u", "i", "d", "a", "n", "c", "e">>,
     <<"h", "e", "l", "l", "o">>,
     <<" ">>}

\* The user messages of the model: up to MaxFrags fragments, concatenated.
UserMessages ==
    {Flatten(fs) : fs \in UNION {[1..k -> Frags] : k \in 0..MaxFrags}}

\* Texts the remote service may put in candidates[0].content.parts[0].text:
\* none, blanks only, a reply, a reply with blanks around it.
GeminiTexts ==
    {<<>>, <<" ", " ">>, <<"A", "m", "e", "n">>,
     <<" ", "A", "m", "e", "n", " ">>}

\* What the remote endpoint may do with the one request: the fetch rejects,
\* the status is not 2xx, the body is not JSON, the JSON has no candidates
\* (missing or empty), the first candidate has no content (a blocked reply),
\* its text is missing, or it carries a text.
GeminiResponses ==
    {[kind |-> k, text |-> <<>>] :
        k \in {"networkError", "httpError", "badJson", "noCandidates",
               "emptyCandidates", "noContent", "noText"}}
    \cup {[kind |-> "text", text |-> t] : t \in GeminiTexts}

GeminiThrow == [threw |-> TRUE, value |-> <<>>]

\* The try block: what it returns, or that it throws.
GeminiTry(userMessage, resp) ==
    CASE resp.kind = "networkError" -> GeminiThrow
      [] resp.kind = "httpError" -> GeminiThrow
      [] resp.kind = "badJson" -> GeminiThrow
      [] resp.kind \in {"noCandidates", "emptyCandidates"} -> GeminiThrow
      [] resp.kind = "noContent" -> GeminiThrow
      [] resp.kind = "noText" -> GeminiThrow
      [] resp.kind = "text" ->
            IF resp.text = <<>>
            THEN GeminiThrow
            ELSE [threw |-> FALSE, value |-> Trim(resp.text)]

\* The catch block without toLowerCase: capitals are not matched.
GeminiFallbackCaseSensitive(userMessage) ==
    IF Includes(userMessage, KwVerse) \/ Includes(userMessage, KwScripture)
    THEN FallbackJeremiah
    ELSE IF Includes(userMessage, KwPray) \/ Includes(userMessage, KwPrayer)
    THEN FallbackPhilippians
    ELSE IF Includes(userMessage, KwHelp) \/ Includes(userMessage, KwGuidance)
    THEN FallbackProverbs
    ELSE FallbackGeneric

\* The catch block: the canned reply chosen from the user's words.
GeminiFallback(userMessage) ==
    LET lowerMessage == ToLowerCase(userMessage) IN
    IF Includes(lowerMessage, KwVerse) \/ Includes(lowerMessage, KwScripture)
    THEN FallbackJeremiah
    ELSE IF Includes(lowerMessage, KwPray) \/ Includes(lowerMessage, KwPrayer)
    THEN FallbackPhilippians
    ELSE IF Includes(lowerMessage, KwHelp) \/ Includes(lowerMessage, KwGuidance)
    THEN FallbackProverbs
    ELSE FallbackGeneric

\* generateGeminiResponse, from the answer to its request to its result.
generateGeminiResponse(userMessage, resp) ==
    LET t == GeminiTry(userMessage, resp) IN
    IF t.threw
    THEN [threw |-> FALSE, value |-> GeminiFallback(userMessage)]
    ELSE t

GeminiInit ==
    /\ gPc = "idle"
    /\ gUser = <<>>
    /\ gFailed = FALSE
    /\ gFetches = 0
    /\ gValue = <<>>

\* A caller invokes generateGeminiResponse(userMessage): the request is sent.
GeminiCall(userMessage) ==
    /\ gPc = "idle"
    /\ gPc' = "fetch"
    /\ gUser' = userMessage
    /\ gFailed' = FALSE
    /\ gFetches' = 1
    /\ gValue' = <<>>
    /\ UNCHANGED <<playVars, voiceVars, chatVars, configVars, rtVars, modalVars>>

\* The request settles and the function runs to its return (or throw).
GeminiSettle(resp) ==
    /\ gPc = "fetch"
    /\ LET r == generateGeminiResponse(gUser, resp) IN
        /\ gPc' = IF r.threw THEN "threw" ELSE "returned"
        /\ gValue' = r.value
    /\ gFailed' = GeminiTry(gUser, resp).threw
    /\ UNCHANGED <<gUser, gFetches, playVars, voiceVars, chatVars, configVars, rtVars, modalVars>>

\* The caller takes the result; the client is ready for the next call.
GeminiDone ==
    /\ gPc \in {"returned", "threw"}
    /\ gPc' = "idle"
    /\ UNCHANGED <<gUser, gFailed, gFetches, gValue, playVars, voiceVars, chatVars, configVars, rtVars, modalVars>>

GeminiNext ==
    \/ \E u \in UserMessages : GeminiCall(u)
    \/ \E resp \in GeminiResponses : GeminiSettle(resp)
    \/ GeminiDone

(***************************************************************************)
(* The audio playback adapter (playAudioBuffer of the voice-synthesis      *)
(* service).  A playback is a record: the audio element's attributes, the  *)
(* closure variable hasEnded, the 30 s timer and the promise returned.     *)
(***************************************************************************)
\* The messages of the errors playAudioBuffer rejects with.
MsgPlaybackFailed ==
    <<"A", "u", "d", "i", "o", " ", "p", "l", "a", "y", "b", "a", "c", "k", " ", "f", "a", "i",
      "l", "e", "d">>

MsgPlaybackInteraction ==
    <<"A", "u", "d", "i", "o", " ", "p", "l", "a", "y", "b", "a", "c", "k", " ", "r", "e", "q",
      "u", "i", "r", "e", "s", " ", "u", "s", "e", "r", " ", "i", "n", "t", "e", "r", "a", "c",
      "t", "i", "o", "n", " ", "o", "n", " ", "t", "h", "i", "s", " ", "d", "e", "v", "i", "c",
      "e">>

MsgPlaybackFormat ==
    <<"A", "u", "d", "i", "o", " ", "f", "o", "r", "m", "a", "t", " ", "n", "o", "t", " ", "s",
      "u", "p", "p", "o", "r", "t", "e", "d", " ", "o", "n", " ", "t", "h", "i", "s", " ", "d",
      "e", "v", "i", "c", "e">>

MsgPlaybackTimeout ==
    <<"A", "u", "d", "i", "o", " ", "p", "l", "a", "y", "b", "a", "c", "k", " ", "t", "i", "m",
      "e", "o", "u", "t">>

MsgAbort ==
    <<"T", "h", "e", " ", "p", "l", "a", "y", "(", ")", " ", "r", "e", "q", "u", "e", "s", "t",
      " ", "w", "a", "s", " ", "i", "n", "t", "e", "r", "r", "u", "p", "t", "e", "d">>

\* setTimeout(..., 30000)
PlaybackTimeoutMs == 30000

\* The step of the model's clock, in milliseconds.
ClockStepMs == 5000

\* What the browser does with audio.play(): it starts the playback
\* ("allowed"), refuses by rejecting the play promise (the DOMException's
\* name), leaves the element paused without rejecting ("silent"), returns no
\* promise at all ("legacy"), or the Blob/Audio construction throws ("throws").
PlayModes ==
    {"allowed", "NotAllowedError", "NotSupportedError", "AbortError",
     "silent", "legacy", "throws"}

RefusingModes == {"NotAllowedError", "NotSupportedError", "AbortError"}

NoPlayback ==
    [mode |-> "none", paused |-> TRUE, playPromise |-> "none",
     mediaEnded |-> FALSE, mediaError |-> FALSE, hasEnded |-> FALSE,
     revoked |-> 0, timer |-> FALSE, promise |-> "none", reason |-> <<>>]

\* cleanup(): the object URL is revoked once.
PbCleanup(p) ==
    IF ~p.hasEnded
    THEN [p EXCEPT !.hasEnded = TRUE, !.revoked = @ + 1]
    ELSE p

\* resolve(): only a pending promise settles.
PbResolve(p) ==
    IF p.promise = "pending" THEN [p EXCEPT !.promise = "resolved"] ELSE p

\* reject(reason): only a pending promise settles.
PbReject(p, msg) ==
    IF p.promise = "pending"
    THEN [p EXCEPT !.promise = "rejected", !.reason = msg]
    ELSE p

\* playAudioBuffer(audioBuffer), up to its return: the element is created,
\* the handlers are set, play() is called and the timer is armed.
playAudioBuffer(mode) ==
    IF mode = "throws"
    THEN [NoPlayback EXCEPT
            !.mode = mode, !.promise = "rejected",
            !.reason = <<"o", "u", "t", " ", "o", "f", " ", "m", "e", "m", "o", "r", "y">>]
    ELSE [NoPlayback EXCEPT
            !.mode = mode,
            !.paused = (mode \in {"NotAllowedError", "silent"}),
            !.playPromise = IF mode = "legacy" THEN "none" ELSE "pending",
            !.timer = TRUE,
            !.promise = "pending"]

\* Sound is coming out of the element.
PbAudible(p) ==
    /\ p.mode \in {"allowed", "legacy"}
    /\ p.playPromise \in {"fulfilled", "none"}
    /\ ~p.paused /\ ~p.mediaEnded /\ ~p.mediaError

\* The browser has refused play() and has yet to reject the play promise.
PbRefusalPending(p) ==
    p.mode \in RefusingModes /\ p.playPromise = "pending"

PbEvents ==
    {"started", "rejected", "ended", "error", "interrupt", "resume", "timeout"}

\* Whether the event can happen to playback p.
PbEnabled(p, ev) ==
    CASE ev = "started" ->
            p.mode = "allowed" /\ p.playPromise = "pending" /\ ~p.mediaError
      [] ev = "rejected" -> PbRefusalPending(p)
      [] ev = "ended" -> PbAudible(p)
      [] ev = "error" ->
            /\ p.mode \in {"allowed", "legacy", "silent", "NotSupportedError"}
            /\ ~p.mediaEnded /\ ~p.mediaError
      [] ev = "interrupt" -> PbAudible(p)
      [] ev = "resume" ->
            /\ p.mode \in {"allowed", "legacy"}
            /\ p.playPromise \in {"fulfilled", "none"}
            /\ p.paused /\ ~p.mediaEnded /\ ~p.mediaError
      [] ev = "timeout" -> p.timer /\ ~PbRefusalPending(p)

\* The timer's callback with the reject left out: it only cleans up.
PbOnTimeoutCleanupOnly(p) ==
    IF ~p.hasEnded /\ p.paused THEN PbCleanup(p) ELSE p

\* The callback of the 30 s timer.
PbOnTimeout(p) ==
    IF ~p.hasEnded /\ p.paused
    THEN PbReject(PbCleanup(p), MsgPlaybackTimeout)
    ELSE p

\* The playback after the event: the handler playAudioBuffer set for it.
PbStep(p, ev) ==
    CASE ev = "started" -> [p EXCEPT !.playPromise = "fulfilled"]
      [] ev = "rejected" ->
            LET q == PbCleanup([p EXCEPT !.playPromise = "rejected"]) IN
            IF p.mode = "NotAllowedError" THEN PbReject(q, MsgPlaybackInteraction)
            ELSE IF p.mode = "NotSupportedError" THEN PbReject(q, MsgPlaybackFormat)
            ELSE PbReject(q, MsgAbort)
      [] ev = "ended" ->
            PbResolve(PbCleanup([p EXCEPT !.mediaEnded = TRUE, !.paused = TRUE]))
      [] ev = "error" ->
            PbReject(PbCleanup([p EXCEPT !.mediaError = TRUE]), MsgPlaybackFailed)
      [] ev = "interrupt" -> [p EXCEPT !.paused = TRUE]
      [] ev = "resume" -> [p EXCEPT !.paused = FALSE]
      [] ev = "timeout" -> PbOnTimeout([p EXCEPT !.timer = FALSE])

PlayInit ==
    /\ pb = NoPlayback
    /\ pbClock = 0

\* A caller invokes playAudioBuffer.
PlayCall(mode) ==
    /\ pb.mode = "none"
    /\ pb' = playAudioBuffer(mode)
    /\ pbClock' = 0
    /\ UNCHANGED <<geminiVars, voiceVars, chatVars, configVars, rtVars, modalVars>>

\* An event of the audio element or of the play promise, and its handler.
PlayEvent(ev) ==
    /\ ev # "timeout"
    /\ PbEnabled(pb, ev)
    /\ pb' = PbStep(pb, ev)
    /\ UNCHANGED <<pbClock, geminiVars, voiceVars, chatVars, configVars, rtVars, modalVars>>

\* Time passes.  A refusal of play() is settled at once, before time passes.
PlayTick ==
    /\ pb.mode # "none"
    /\ pbClock < PlaybackTimeoutMs
    /\ ~PbRefusalPending(pb)
    /\ pbClock' = pbClock + ClockStepMs
    /\ UNCHANGED <<pb, geminiVars, voiceVars, chatVars, configVars, rtVars, modalVars>>

\* The 30 s timer fires.
PlayTimeout ==
    /\ pbClock >= PlaybackTimeoutMs
    /\ PbEnabled(pb, "timeout")
    /\ pb' = PbStep(pb, "timeout")
    /\ UNCHANGED <<pbClock, geminiVars, voiceVars, chatVars, configVars, rtVars, modalVars>>

\* The caller has seen the promise settle and the timer is spent: the
\* playback is forgotten.
PlayForget ==
    /\ pb.promise \in {"resolved", "rejected"}
    /\ ~pb.timer
    /\ pb' = NoPlayback
    /\ pbClock' = 0
    /\ UNCHANGED <<geminiVars, voiceVars, chatVars, configVars, rtVars, modalVars>>

PlayNext ==
    \/ \E mode \in PlayModes : PlayCall(mode)
    \/ \E ev \in PbEvents : PlayEvent(ev)
    \/ PlayTick
    \/ PlayTimeout
    \/ PlayForget

(***************************************************************************)
(* The speech capture hook (hooks/useSpeechRecognition.ts).  Its state is  *)
(* hk (the React state it returns), ref (its refs) and eng (the browser's  *)
(* recognition object and the timers and permission requests in flight).   *)
(* A handler is an operator from a world w = [hk, ref, eng, app, calls,    *)
(* welcome] to the world it leaves; app, calls and welcome belong to the   *)
(* component that uses the hook.                                           *)
(***************************************************************************)
\* result[0].confidence || 0.8, in percent
DefaultConfidencePct == 80

\* The results lists of an onresult event: each result carries a transcript,
\* whether it is final, and a confidence in percent (0: none given).
RecResultLists ==
    LET results == [transcript : {<<" ">>, <<"a">>}, isFinal : BOOLEAN,
                    confidence : {0, 90}]
    IN UNION {[1..n -> results] : n \in 1..MaxResults}

RecErrors ==
    {"not-allowed", "no-speech", "audio-capture", "network", "aborted",
     "service-not-allowed"}

\* recognition.stop() asks a running session to end.
RecStop(w) ==
    IF w.eng.rec = "running" THEN [w EXCEPT !.eng.rec = "stopping"] ELSE w

\* if (timeoutRef.current) { clearTimeout(timeoutRef.current); ... = null }
ClearTimeoutRef(w) == [w EXCEPT !.ref.timeout = "null"]

\* recognition.onstart
HookOnStart(w) ==
    LET w1 == ClearTimeoutRef(
                [w EXCEPT !.eng.rec = "running",
                          !.hk.isListening = TRUE,
                          !.ref.isStarting = FALSE,
                          !.ref.finalTranscript = <<>>])
    IN IF w.eng.isIOS THEN [w1 EXCEPT !.ref.timeout = "pending"] ELSE w1

\* The loop of recognition.onresult over event.results.
RECURSIVE ResultLoop(_, _, _, _)
ResultLoop(results, i, isIOS, acc) ==
    IF i > Len(results) THEN acc
    ELSE LET r == results[i]
             c == IF r.confidence = 0 THEN DefaultConfidencePct ELSE r.confidence
         IN ResultLoop(results, i + 1, isIOS,
                IF r.isFinal
                THEN [acc EXCEPT
                        !.final = @ \o r.transcript,
                        !.maxConfidence = IF c > @ THEN c ELSE @,
                        !.finalRef = acc.final \o r.transcript]
                ELSE IF ~isIOS
                THEN [acc EXCEPT !.interim = @ \o r.transcript]
                ELSE acc)

\* recognition.onresult
HookOnResult(w, results) ==
    LET acc == ResultLoop(results, 1, w.eng.isIOS,
                    [interim |-> <<>>, final |-> <<>>, maxConfidence |-> 0,
                     finalRef |-> w.ref.finalTranscript])
        currentTranscript == IF acc.final # <<>> THEN acc.final ELSE acc.interim
        w1 == [ClearTimeoutRef(w) EXCEPT !.ref.finalTranscript = acc.finalRef]
    IN IF Trim(currentTranscript) = <<>> THEN w1
       ELSE LET w2 == [w1 EXCEPT !.hk.transcript = Trim(currentTranscript)] IN
            IF acc.final = <<>> THEN w2
            ELSE LET w3 == [w2 EXCEPT !.hk.confidence = acc.maxConfidence] IN
                 IF w.eng.isIOS
                 THEN [w3 EXCEPT !.eng.stopTimers = @ + 1]
                 ELSE w3

\* recognition.onerror
HookOnError(w, kind) ==
    LET w1 == [ClearTimeoutRef(w) EXCEPT
                    !.eng.rec = "ending",
                    !.hk.isListening = FALSE,
                    !.ref.isStarting = FALSE]
        cleared == [w1 EXCEPT !.hk.transcript = <<>>]
    IN CASE kind = "not-allowed" -> cleared
         [] kind = "no-speech" -> IF ~w.eng.isIOS THEN cleared ELSE w1
         [] kind = "audio-capture" -> cleared
         [] kind = "network" -> cleared
         [] OTHER -> w1

\* recognition.onend
HookOnEnd(w) ==
    LET w1 == [ClearTimeoutRef(w) EXCEPT
                    !.eng.rec = "idle",
                    !.hk.isListening = FALSE,
                    !.ref.isStarting = FALSE]
    IN IF Trim(w.ref.finalTranscript) # <<>>
       THEN [w1 EXCEPT !.hk.transcript = Trim(w.ref.finalTranscript)]
       ELSE w1

\* The guard of startListening: no recognition object, already listening, or
\* a start is pending.
StartRefused(w) == w.hk.isListening \/ w.ref.isStarting

\* try { recognition.start() } catch { isStartingRef = false;
\* setIsListening(false) }: start() begins a session unless one is under
\* way, in which case it throws InvalidStateError.
TryRecStart(w) ==
    IF w.eng.rec # "idle"
    THEN [w EXCEPT !.ref.isStarting = FALSE, !.hk.isListening = FALSE]
    ELSE [w EXCEPT !.eng.rec = "starting"]

\* startListening, up to its first await.
startListening(w) ==
    IF StartRefused(w) THEN w
    ELSE LET w1 == [w EXCEPT !.ref.isStarting = TRUE,
                             !.hk.transcript = <<>>,
                             !.hk.confidence = 0,
                             !.ref.finalTranscript = <<>>]
         IN IF w.eng.hasMedia THEN [w1 EXCEPT !.eng.perm = @ + 1]
            ELSE IF w.eng.isIOS THEN [w1 EXCEPT !.eng.startTimers = @ + 1]
            ELSE TryRecStart(w1)

\* HookOnPermission whose denial leaves isStartingRef as it is.
HookOnPermissionKeepingFlag(w, granted) ==
    IF granted
    THEN [w EXCEPT !.eng.perm = @ - 1, !.eng.startTimers = @ + 1]
    ELSE [w EXCEPT !.eng.perm = @ - 1, !.hk.isListening = FALSE]

\* startListening after getUserMedia: granted (the start is delayed by a
\* timer) or denied (the flags are cleared and the error is rethrown).
HookOnPermission(w, granted) ==
    IF granted
    THEN [w EXCEPT !.eng.perm = @ - 1, !.eng.startTimers = @ + 1]
    ELSE [w EXCEPT !.eng.perm = @ - 1,
                   !.ref.isStarting = FALSE,
                   !.hk.isListening = FALSE]

\* The delayed start: setTimeout(() => { if (isStartingRef.current) start() }).
HookOnStartTimer(w) ==
    LET w1 == [w EXCEPT !.eng.startTimers = @ - 1] IN
    IF w.ref.isStarting THEN TryRecStart(w1) ELSE w1

\* stopListening
stopListening(w) ==
    IF ~w.hk.isListening THEN w ELSE RecStop(ClearTimeoutRef(w))

\* resetTranscript
resetTranscript(w) ==
    [w EXCEPT !.hk.transcript = <<>>,
              !.hk.confidence = 0,
              !.ref.finalTranscript = <<>>]

\* The iOS safety timer set in onstart.  Its callback closes over the
\* isListening of the render in which the handlers were installed, the first,
\* where it is false: the callback never calls stop().
HookOnIosTimeout(w) ==
    LET closureIsListening == FALSE
        w1 == [w EXCEPT !.ref.timeout = "fired"]
    IN IF closureIsListening THEN RecStop(w1) ELSE w1

\* The iOS timer set after a final result: recognition.stop().
HookOnStopTimer(w) == RecStop([w EXCEPT !.eng.stopTimers = @ - 1])

(***************************************************************************)
(* The voice component (App.tsx, first version) on top of the hook.  app   *)
(* is its React state, welcome the timer of the welcome greeting, tasks    *)
(* the asynchronous calls in flight (handleUserMessage, playWelcomeGreeting)*)
(* each with the playback it started and whether it was begun in the      *)
(* latest recognition session.  currentTranscript (with its 3 s timer) and *)
(* lastResponse are display only and are left out.                         *)
(*                                                                         *)
(* React: the state updates of a handler are applied together, the         *)
(* component renders, and the effects whose dependencies changed run in    *)
(* declaration order, all reading the values of that render; their updates *)
(* cause the next render, until nothing changes.                           *)
(***************************************************************************)
World ==
    [hk |-> hk, ref |-> ref, eng |-> eng, app |-> app, welcome |-> welcome,
     calls |-> <<>>]

\* What a render sees.
Snapshot(w) == [hk |-> w.hk, app |-> w.app]

\* handleUserMessage(userText), up to its first await; cur is the render
\* whose closure the caller holds.
handleUserMessage(cur, w, userText) ==
    IF Trim(userText) = <<>> \/ cur.app.isProcessing THEN w
    ELSE [w EXCEPT !.app.isProcessing = TRUE,
                   !.app.error = "null",
                   !.calls = Append(@, userText)]

\* The effects of one commit of the voice component.
VoiceEffects(prev, cur, w) ==
    LET e0 == IF prev.hk.isListening # cur.hk.isListening
              THEN [w EXCEPT !.app.isRecording = cur.hk.isListening]
              ELSE w
        eg == IF prev.app.hasPlayedGreeting # cur.app.hasPlayedGreeting
              THEN [e0 EXCEPT !.welcome =
                        IF cur.app.hasPlayedGreeting THEN "played" ELSE "fresh"]
              ELSE e0
        e1 == IF prev.hk # cur.hk /\ Trim(cur.hk.transcript) # <<>>
              THEN IF ~cur.hk.isListening
                   THEN resetTranscript(
                            handleUserMessage(cur, eg, cur.hk.transcript))
                   ELSE [eg EXCEPT !.app.pendingTranscript = cur.hk.transcript]
              ELSE eg
        e2 == IF /\ \/ prev.hk.isListening # cur.hk.isListening
                    \/ prev.app.pendingTranscript # cur.app.pendingTranscript
                    \/ prev.hk.confidence # cur.hk.confidence
                 /\ ~cur.hk.isListening
                 /\ Trim(cur.app.pendingTranscript) # <<>>
              THEN resetTranscript(
                       [handleUserMessage(cur, e1, cur.app.pendingTranscript)
                            EXCEPT !.app.pendingTranscript = <<>>])
              ELSE e1
    IN e2

\* Render and run effects until the state is stable.
RECURSIVE Flush(_, _)
Flush(prev, w) ==
    IF Snapshot(w) = prev THEN w
    ELSE Flush(Snapshot(w), VoiceEffects(prev, Snapshot(w), w))

\* handleVoiceStart
handleVoiceStart(w) ==
    startListening([w EXCEPT !.app.error = "null",
                             !.app.pendingTranscript = <<>>])

\* The banner the catch block of handleUserMessage chooses.
ErrorBanner(message) ==
    IF Includes(message, <<"G", "e", "m", "i", "n", "i">>)
    THEN "Unable to connect to AI service. Please check your internet connection and try again."
    ELSE IF Includes(message, <<"E", "l", "e", "v", "e", "n", "L", "a", "b", "s">>) \/ Includes(message, <<"s", "p", "e", "e", "c", "h">>)
    THEN "Voice synthesis error. Please check your ElevenLabs configuration in settings."
    ELSE "Something went wrong. Please try again."

\* TaskEnd with a catch block that calls handleUserMessage again.
TaskEndRetrying(w, kind, ok, message) ==
    IF kind = "reply" /\ ~ok
    THEN [w EXCEPT !.app.error = ErrorBanner(message),
                   !.calls = Append(@, <<"a">>)]
    ELSE IF kind = "reply"
    THEN [w EXCEPT !.app.isPlayingAudio = FALSE, !.app.isProcessing = FALSE]
    ELSE [w EXCEPT !.app.hasPlayedGreeting = TRUE,
                   !.app.isPlayingGreeting = FALSE]

\* TaskEnd without the finally block of handleUserMessage.
TaskEndWithoutFinally(w, kind, ok, message) ==
    IF kind = "reply"
    THEN (IF ok THEN [w EXCEPT !.app.isPlayingAudio = FALSE]
          ELSE [w EXCEPT !.app.error = ErrorBanner(message)])
    ELSE [w EXCEPT !.app.hasPlayedGreeting = TRUE,
                   !.app.isPlayingGreeting = FALSE]

\* A task runs to its end after its last await: the statements after
\* playAudioBuffer (ok) or the catch block, then the finally block.
TaskEnd(w, kind, ok, message) ==
    IF kind = "reply"
    THEN [(IF ok THEN [w EXCEPT !.app.isPlayingAudio = FALSE]
           ELSE [w EXCEPT !.app.error = ErrorBanner(message)])
            EXCEPT !.app.isProcessing = FALSE]
    ELSE [w EXCEPT !.app.hasPlayedGreeting = TRUE,
                   !.app.isPlayingGreeting = FALSE]

\* What the synthesis endpoint may answer: audio, a non-2xx status, or
\* nothing (fetch rejects with the browser's TypeError).
SynthResponses ==
    {[ok |-> TRUE, message |-> <<>>],
     [ok |-> FALSE, message |-> 
        <<"E", "l", "e", "v", "e", "n", "L", "a", "b", "s", " ", "A", "P", "I", " ", "e", "r", "r", "o", "r", ":", " ", "4", "0", "1">>],
     [ok |-> FALSE, message |-> <<"F", "a", "i", "l", "e", "d", " ", "t", "o", " ", "f", "e", "t", "c", "h">>],
     [ok |-> FALSE, message |-> <<"L", "o", "a", "d", " ", "f", "a", "i", "l", "e", "d">>],
     [ok |-> FALSE, message |-> 
        <<"N", "e", "t", "w", "o", "r", "k", "E", "r", "r", "o", "r", " ", "w", "h", "e", "n", " ", "a", "t", "t", "e", "m", "p", "t", "i", "n", "g", " ", "t", "o", " ", "f", "e", "t", "c", "h", " ", "r", "e", "s", "o", "u", "r", "c", "e", ".">>]}

\* How the browser treats the play() of a task: it plays, or it refuses for
\* want of a user gesture.
TaskPlayModes == {"allowed", "NotAllowedError"}

\* The playback events followed for a task.  Under TaskPlayModes the element
\* is paused only once it has ended or been refused, so the 30 s timer finds
\* nothing to do and is not followed.
TaskPbEvents == {"started", "rejected", "ended", "error"}

\* Tasks that have run to their end and whose playback can make no more
\* sound are forgotten.
Prune(ts) ==
    SelectSeq(ts, LAMBDA t :
        \/ t.pc # "done"
        \/ \E ev \in {"started", "ended", "resume"} : PbEnabled(t.pb, ev))

\* A handler has left world w and tasks ts: React flushes, and the calls of
\* handleUserMessage send their generation requests.  The counters are
\* capped.
Step(w, ts) ==
    LET f == Flush(Snapshot(World), w)
        new == [i \in 1..Len(f.calls) |->
                    [kind |-> "reply", pc |-> "gen", latest |-> TRUE,
                     pb |-> NoPlayback]]
        ts2 == Prune(ts \o new)
    IN /\ f.eng.perm <= MaxPending
       /\ f.eng.startTimers <= MaxPending
       /\ f.eng.stopTimers <= MaxPending
       /\ Len(ts2) <= MaxTasks
       /\ hk' = f.hk
       /\ ref' = f.ref
       /\ eng' = f.eng
       /\ app' = f.app
       /\ welcome' = f.welcome
       /\ tasks' = ts2
       /\ UNCHANGED <<geminiVars, playVars, chatVars, configVars, rtVars, modalVars>>

VoiceInit ==
    /\ hk = [transcript |-> <<>>, isListening |-> FALSE, confidence |-> 0]
    /\ ref = [finalTranscript |-> <<>>, isStarting |-> FALSE, timeout |-> "null"]
    /\ \E isIOS \in BOOLEAN, hasMedia \in BOOLEAN :
            eng = [isIOS |-> isIOS, hasMedia |-> hasMedia, rec |-> "idle",
                   perm |-> 0, startTimers |-> 0, stopTimers |-> 0]
    /\ app = [isProcessing |-> FALSE, isPlayingAudio |-> FALSE,
              error |-> "null", hasPlayedGreeting |-> FALSE,
              isPlayingGreeting |-> FALSE, isRecording |-> FALSE,
              pendingTranscript |-> <<>>]
    /\ welcome = "fresh"
    /\ tasks = <<>>

\* The main button: disabled while processing or playing; it stops a
\* recording and starts one otherwise.
VoiceButton ==
    /\ ~(app.isProcessing \/ app.isPlayingAudio \/ app.isPlayingGreeting)
    /\ Step(IF app.isRecording THEN stopListening(World)
            ELSE handleVoiceStart(World), tasks)

\* ScreenTap without the tests of isProcessing, isPlayingAudio and
\* isPlayingGreeting.
ScreenTapUnguarded ==
    /\ ~app.isRecording
    /\ Step(handleVoiceStart(World), tasks)

\* handleScreenTap, for a tap outside the buttons.
ScreenTap ==
    /\ ~app.isRecording /\ ~app.isProcessing
    /\ ~app.isPlayingAudio /\ ~app.isPlayingGreeting
    /\ Step(handleVoiceStart(World), tasks)

\* getUserMedia settles.
PermissionSettles(granted) ==
    /\ eng.perm > 0
    /\ Step(HookOnPermission(World, granted), tasks)

StartTimerFires ==
    /\ eng.startTimers > 0
    /\ Step(HookOnStartTimer(World), tasks)

\* A recognition session starts: it is now the latest.
RecStarted ==
    /\ eng.rec = "starting"
    /\ Step(HookOnStart(World),
            [i \in 1..Len(tasks) |-> [tasks[i] EXCEPT !.latest = FALSE]])

RecResult(results) ==
    /\ eng.rec \in {"running", "stopping"}
    /\ Step(HookOnResult(World, results), tasks)

RecError(kind) ==
    /\ eng.rec \in {"starting", "running", "stopping"}
    /\ Step(HookOnError(World, kind), tasks)

RecEnded ==
    /\ eng.rec \in {"running", "stopping", "ending"}
    /\ Step(HookOnEnd(World), tasks)

IosTimeoutFires ==
    /\ ref.timeout = "pending"
    /\ Step(HookOnIosTimeout(World), tasks)

StopTimerFires ==
    /\ eng.stopTimers > 0
    /\ Step(HookOnStopTimer(World), tasks)

\* The 1500 ms timer of the welcome effect: playWelcomeGreeting, with the
\* hasPlayedGreeting of the render that set the timer.
WelcomeTimerFires ==
    /\ welcome # "none"
    /\ IF welcome = "fresh"
       THEN Step([World EXCEPT !.welcome = "none",
                               !.app.isPlayingGreeting = TRUE],
                 Append(tasks, [kind |-> "welcome", pc |-> "synth",
                                latest |-> FALSE, pb |-> NoPlayback]))
       ELSE Step([World EXCEPT !.welcome = "none"], tasks)

\* The generation request of task i settles.  generateGeminiResponse returns
\* a reply whatever the answer (its catch block returns a canned one), and
\* the synthesis request for the reply is sent; what the reply says has no
\* bearing on what follows.
GenSettles(i) ==
    /\ tasks[i].pc = "gen"
    /\ Step(World, [tasks EXCEPT ![i].pc = "synth"])

\* The synthesis request of task i settles: on audio the task calls
\* playAudioBuffer, otherwise synthesizeSpeech rethrows.
SynthSettles(i, resp, mode) ==
    /\ tasks[i].pc = "synth"
    \* mode says how the browser will treat play(): it matters on audio only
    /\ resp.ok \/ mode = "allowed"
    /\ LET kind == tasks[i].kind
           p == playAudioBuffer(mode)
           w == IF kind = "reply"
                THEN [World EXCEPT !.app.isPlayingAudio = TRUE] ELSE World
       IN IF ~resp.ok
          THEN Step(TaskEnd(World, kind, FALSE, resp.message),
                    [tasks EXCEPT ![i].pc = "done"])
          ELSE IF p.promise = "pending"
          THEN Step(w, [tasks EXCEPT ![i].pc = "play", ![i].pb = p])
          ELSE Step(TaskEnd(w, kind, FALSE, p.reason),
                    [tasks EXCEPT ![i].pc = "done", ![i].pb = p])

\* An event of the playback of task i; if it settles the promise the task
\* awaits, the task runs to its end.
PlaybackEvent(i, ev) ==
    /\ PbEnabled(tasks[i].pb, ev)
    /\ LET p == PbStep(tasks[i].pb, ev) IN
       IF tasks[i].pc = "play" /\ p.promise # "pending"
       THEN Step(TaskEnd(World, tasks[i].kind, p.promise = "resolved", p.reason),
                 [tasks EXCEPT ![i].pc = "done", ![i].pb = p])
       ELSE Step(World, [tasks EXCEPT ![i].pb = p])

VoiceNext ==
    \/ VoiceButton
    \/ ScreenTap
    \/ \E granted \in BOOLEAN : PermissionSettles(granted)
    \/ StartTimerFires
    \/ RecStarted
    \/ \E results \in RecResultLists : RecResult(results)
    \/ \E kind \in RecErrors : RecError(kind)
    \/ RecEnded
    \/ IosTimeoutFires
    \/ StopTimerFires
    \/ WelcomeTimerFires
    \/ \E i \in 1..Len(tasks) : GenSettles(i)
    \/ \E i \in 1..Len(tasks), resp \in SynthResponses, mode \in TaskPlayModes :
            SynthSettles(i, resp, mode)
    \/ \E i \in 1..Len(tasks), ev \in TaskPbEvents : PlaybackEvent(i, ev)

(***************************************************************************)
(* The conversation sessions of the chat component (unnamed/part_001).     *)
(* chat holds its React state: messages (each stood for by its id; text    *)
(* and author play no part), sessions (a new one is put first), the id of  *)
(* the current session (0 for null), the round trips in flight and the     *)
(* time of the last call of handleUserMessage; now is Date.now().  A call  *)
(* of handleUserMessage awaits timers before it appends the reply, and two *)
(* utterances do not end at the same instant, so neither a reply nor a     *)
(* further user message comes at the time of the last call.  sessions is   *)
(* kept by useLocalStorage, taken to behave as useState does.  The save    *)
(* effect runs in the commit of every handler that changes what it depends *)
(* on; saveDue says that the last run wrote a new session list, which is a *)
(* change of its own dependency and makes it run once more.  A list the    *)
(* effect writes is a new array, not the one it replaces, whatever it      *)
(* holds: listRef tells the two apart.                                     *)
(***************************************************************************)
\* FindIndex that takes the first session of the list, whatever its id.
FindIndexFirst(sessions, id) ==
    IF Len(sessions) > 0 THEN 1 ELSE 0

\* sessions.findIndex(s => s.id === id), counted from 1; 0 when absent.
FindIndex(sessions, id) ==
    LET found == {i \in 1..Len(sessions) : sessions[i].id = id} IN
    IF found = {} THEN 0
    ELSE CHOOSE i \in found : \A j \in found : i <= j

\* The body of the save effect, run at time t.
ChatSave(c, t) ==
    IF Len(c.messages) > 0 /\ c.currentSessionId # 0
    THEN LET sessionIndex == FindIndex(c.sessions, c.currentSessionId)
             updatedSession == [id |-> c.currentSessionId,
                                messages |-> c.messages, timestamp |-> t]
         IN IF sessionIndex > 0
            THEN [c EXCEPT !.sessions[sessionIndex] = updatedSession,
                           !.saveDue = TRUE, !.listRef = 1 - @]
            ELSE [c EXCEPT !.sessions = <<updatedSession>> \o @,
                           !.saveDue = TRUE, !.listRef = 1 - @]
    ELSE [c EXCEPT !.saveDue = FALSE]

\* A handler has left state c: the component renders and, if messages,
\* currentSessionId or sessions changed, the save effect runs.
ChatStep(c) ==
    /\ chat' = IF <<c.messages, c.currentSessionId, c.sessions>>
                    # <<chat.messages, chat.currentSessionId, chat.sessions>>
               THEN ChatSave(c, now) ELSE c
    /\ UNCHANGED <<now, geminiVars, playVars, voiceVars, configVars, rtVars, modalVars>>

ChatInit ==
    /\ chat = [messages |-> <<>>, sessions |-> <<>>, currentSessionId |-> 0,
               inflight |-> 0, sentAt |-> 0, saveDue |-> FALSE,
               listRef |-> 0]
    /\ now = 1

\* handleUserMessage, up to its first await: a session id is made if there
\* is none and the user's message is appended.
ChatUserMessage ==
    /\ Len(chat.messages) < MaxMessages
    /\ chat.inflight < MaxInflight
    /\ now > chat.sentAt
    /\ ChatStep([chat EXCEPT
            !.currentSessionId = IF @ = 0 THEN now ELSE @,
            !.messages = Append(@, now),
            !.inflight = @ + 1,
            !.sentAt = now])

\* ChatReply of a handler that drops the reply when the user has left the
\* list the round trip began in.
ChatReplyDiscarding(ok) ==
    /\ chat.inflight > 0
    /\ now > chat.sentAt
    /\ ok => Len(chat.messages) < MaxMessages
    /\ ChatStep([chat EXCEPT
            !.messages = IF ok /\ \E i \in 1..Len(@) : @[i] = chat.sentAt
                         THEN Append(@, now + 1) ELSE @,
            !.inflight = @ - 1])

\* handleUserMessage after synthesizeSpeech: the assistant's message is
\* appended to the messages shown; on a failure nothing is appended.
ChatReply(ok) ==
    /\ chat.inflight > 0
    /\ now > chat.sentAt
    /\ ok => Len(chat.messages) < MaxMessages
    /\ ChatStep([chat EXCEPT
            !.messages = IF ok THEN Append(@, now + 1) ELSE @,
            !.inflight = @ - 1])

startNewSession ==
    ChatStep([chat EXCEPT !.messages = <<>>, !.currentSessionId = 0])

loadSession(k) ==
    ChatStep([chat EXCEPT !.messages = chat.sessions[k].messages,
                          !.currentSessionId = chat.sessions[k].id])

\* onDeleteSession of the history panel.
DeleteSession(k) ==
    ChatStep([chat EXCEPT !.sessions =
        SelectSeq(@, LAMBDA s : s.id # chat.sessions[k].id)])

\* The commit of a run of the save effect that wrote the session list: the
\* list is a new value, so the effect runs again.
SaveEffectRuns ==
    /\ chat.saveDue
    /\ chat' = ChatSave(chat, now)
    /\ UNCHANGED <<now, geminiVars, playVars, voiceVars, configVars, rtVars, modalVars>>

\* Time passes.
Tick ==
    /\ now < MaxNow
    /\ now' = now + 1
    /\ UNCHANGED <<chat, geminiVars, playVars, voiceVars, configVars, rtVars, modalVars>>

ChatNext ==
    \/ ChatUserMessage
    \/ \E ok \in BOOLEAN : ChatReply(ok)
    \/ startNewSession
    \/ \E k \in 1..Len(chat.sessions) : loadSession(k)
    \/ \E k \in 1..Len(chat.sessions) : DeleteSession(k)
    \/ SaveEffectRuns
    \/ Tick

(***************************************************************************)
(* The configuration of the synthesis client (unnamed/part_000): the entry *)
(* 'elevenlabs-config' of localStorage and the values synthesizeSpeech     *)
(* resolves from it.  cfg holds the entry and what the last call resolved. *)
(* A JavaScript value is a record [t, n, b]: a number (in hundredths), a   *)
(* boolean or undefined.  The text of a JSON object is the sequence of its *)
(* members; JSON.stringify leaves out the members whose value is           *)
(* undefined, and a member missing from the text reads as undefined.       *)
(* Strings are "undefined" for undefined and "" for the empty string.      *)
(***************************************************************************)
JsNumber(n) == [t |-> "number", n |-> n, b |-> FALSE]

JsBoolean(b) == [t |-> "boolean", n |-> 0, b |-> b]

JsUndefined == [t |-> "undefined", n |-> 0, b |-> FALSE]

\* The fields of interface VoiceSettings, in the order of declaration.
VoiceSettingsKeys ==
    <<"stability", "similarity_boost", "style", "use_speaker_boost">>

\* The built-in defaults.
ELEVENLABS_API_KEY == "sk_8ddbd27c"

DEFAULT_VOICE_ID == "21m00Tcm4TlvDq8ikWAM"

defaultVoiceSettings ==
    [stability |-> JsNumber(50), similarity_boost |-> JsNumber(75),
     style |-> JsNumber(50), use_speaker_boost |-> JsBoolean(TRUE)]

\* The VoiceSettings objects followed; style is optional.
VoiceSettingsValues ==
    [stability : {JsNumber(0), JsNumber(100)},
     similarity_boost : {JsNumber(75)},
     style : {JsUndefined, JsNumber(0)},
     use_speaker_boost : {JsBoolean(FALSE)}]

\* JSON.stringify of an object with the given keys.
JsonStringify(object, keys) ==
    LET members == [i \in 1..Len(keys) |->
                        [key |-> keys[i], value |-> object[keys[i]]]]
    IN SelectSeq(members, LAMBDA mb : mb.value.t # "undefined")

\* The property key of the object that JSON.parse gives for a text.
JsonProperty(text, key) ==
    LET found == {i \in 1..Len(text) : text[i].key = key} IN
    IF found = {} THEN JsUndefined
    ELSE text[CHOOSE i \in found : \A j \in found : i >= j].value

\* JSON.parse of the text of a VoiceSettings object.
JsonParseSettings(text) ==
    [stability |-> JsonProperty(text, "stability"),
     similarity_boost |-> JsonProperty(text, "similarity_boost"),
     style |-> JsonProperty(text, "style"),
     use_speaker_boost |-> JsonProperty(text, "use_speaker_boost")]

\* What localStorage.getItem('elevenlabs-config') may give: nothing, the
\* empty string, a text that is not JSON, the JSON texts null and of a
\* primitive, or the text of an object with or without each field.
NoMembers == [present |-> FALSE, text |-> <<>>]

StoredEntries ==
    [kind : {"absent", "empty", "malformed", "null", "primitive"},
     apiKey : {"undefined"}, voiceId : {"undefined"}, voiceSettings : {NoMembers}]
    \cup
    [kind : {"object"}, apiKey : {"undefined", "", "stored"}, voiceId : {"undefined", "stored"},
     voiceSettings : {NoMembers} \cup
        {[present |-> TRUE, text |-> JsonStringify(vs, VoiceSettingsKeys)] :
            vs \in VoiceSettingsValues}]

\* The try block the three getters share: getItem, if (config) JSON.parse.
\* It gives the parsed object, nothing (the getter falls through to its
\* default), or throws: JSON.parse on a text that is not JSON, and the
\* property access on the null that the text null parses to.
ReadConfig(stored) ==
    CASE stored.kind \in {"absent", "empty"} -> [threw |-> FALSE, parsed |-> FALSE]
      [] stored.kind \in {"malformed", "null"} -> [threw |-> TRUE, parsed |-> FALSE]
      [] OTHER -> [threw |-> FALSE, parsed |-> TRUE]

\* a || b on strings
OrString(a, b) == IF a \in {"undefined", ""} THEN b ELSE a

\* getApiKey without its catch block: the exception leaves the getter.
getApiKeyUncaught(stored) ==
    LET r == ReadConfig(stored) IN
    IF r.threw THEN [threw |-> TRUE, value |-> "undefined"]
    ELSE IF r.parsed
    THEN [threw |-> FALSE, value |-> OrString(stored.apiKey, ELEVENLABS_API_KEY)]
    ELSE [threw |-> FALSE, value |-> ELEVENLABS_API_KEY]

getApiKey(stored) ==
    LET r == ReadConfig(stored) IN
    IF ~r.threw /\ r.parsed
    THEN [threw |-> FALSE, value |-> OrString(stored.apiKey, ELEVENLABS_API_KEY)]
    ELSE [threw |-> FALSE, value |-> ELEVENLABS_API_KEY]

\* getVoiceSettings with the default taken field by field.
getVoiceSettingsByField(stored) ==
    LET r == ReadConfig(stored)
        vs == JsonParseSettings(stored.voiceSettings.text)
        falsy == {JsUndefined, JsNumber(0), JsBoolean(FALSE)}
    IN IF ~r.threw /\ r.parsed /\ stored.voiceSettings.present
       THEN [threw |-> FALSE,
             value |-> [k \in DOMAIN vs |->
                            IF vs[k] \in falsy THEN defaultVoiceSettings[k]
                            ELSE vs[k]]]
       ELSE [threw |-> FALSE, value |-> defaultVoiceSettings]

getVoiceSettings(stored) ==
    LET r == ReadConfig(stored) IN
    IF ~r.threw /\ r.parsed /\ stored.voiceSettings.present
    THEN [threw |-> FALSE, value |-> JsonParseSettings(stored.voiceSettings.text)]
    ELSE [threw |-> FALSE, value |-> defaultVoiceSettings]

getVoiceId(stored) ==
    LET r == ReadConfig(stored) IN
    IF ~r.threw /\ r.parsed
    THEN [threw |-> FALSE, value |-> OrString(stored.voiceId, DEFAULT_VOICE_ID)]
    ELSE [threw |-> FALSE, value |-> DEFAULT_VOICE_ID]

\* The arguments of synthesizeSpeech besides the text.
NoSettings == [given |-> FALSE, value |-> defaultVoiceSettings]

SynthArgs ==
    [voiceId : {"undefined", "argument"},
     voiceSettings : {NoSettings} \cup
        {[given |-> TRUE, value |-> vs] :
            vs \in {v \in VoiceSettingsValues : v.stability = JsNumber(0)}},
     testApiKey : {"undefined", "", "argument"}]

\* The first statements of synthesizeSpeech: a getter is called only when
\* the argument is falsy.
ResolveConfig(args, stored) ==
    LET k == IF args.testApiKey \in {"undefined", ""} THEN getApiKey(stored)
             ELSE [threw |-> FALSE, value |-> args.testApiKey]
        v == IF args.voiceId \in {"undefined", ""} THEN getVoiceId(stored)
             ELSE [threw |-> FALSE, value |-> args.voiceId]
        s == IF ~args.voiceSettings.given THEN getVoiceSettings(stored)
             ELSE [threw |-> FALSE, value |-> args.voiceSettings.value]
    IN [called |-> TRUE, threw |-> k.threw \/ v.threw \/ s.threw,
        apiKey |-> k.value, finalVoiceId |-> v.value,
        finalVoiceSettings |-> s.value]

ConfigInit ==
    cfg = [stored |-> [kind |-> "absent", apiKey |-> "undefined",
                       voiceId |-> "undefined", voiceSettings |-> NoMembers],
           out |-> [called |-> FALSE, threw |-> FALSE,
                    apiKey |-> "undefined", finalVoiceId |-> "undefined",
                    finalVoiceSettings |-> defaultVoiceSettings]]

\* Something leaves an entry in localStorage, or removes it.
StoreEntry(entry) ==
    /\ cfg' = [cfg EXCEPT !.stored = entry]
    /\ UNCHANGED <<geminiVars, playVars, voiceVars, chatVars, rtVars, modalVars>>

\* The settings form saves the configuration:
\* localStorage.setItem('elevenlabs-config', JSON.stringify({apiKey, voiceId,
\* voiceSettings})).
SaveConfig(apiKey, voiceId, voiceSettings) ==
    /\ cfg' = [cfg EXCEPT !.stored =
            [kind |-> "object", apiKey |-> apiKey, voiceId |-> voiceId,
             voiceSettings |->
                [present |-> TRUE,
                 text |-> JsonStringify(voiceSettings, VoiceSettingsKeys)]]]
    /\ UNCHANGED <<geminiVars, playVars, voiceVars, chatVars, rtVars, modalVars>>

\* A call of synthesizeSpeech resolves its configuration.
SynthesizeResolves(args) ==
    /\ cfg' = [cfg EXCEPT !.out = ResolveConfig(args, cfg.stored)]
    /\ UNCHANGED <<geminiVars, playVars, voiceVars, chatVars, rtVars, modalVars>>

ConfigNext ==
    \/ \E entry \in StoredEntries : StoreEntry(entry)
    \/ \E apiKey \in {"", "stored"}, voiceId \in {"stored"},
          voiceSettings \in VoiceSettingsValues :
            SaveConfig(apiKey, voiceId, voiceSettings)
    \/ \E args \in SynthArgs : SynthesizeResolves(args)

(***************************************************************************)
(* The texts of a round trip of handleUserMessage (App.tsx, first          *)
(* version): the user's text goes to generateGeminiResponse and the reply  *)
(* to synthesizeSpeech.  rt holds isProcessing and lastResponse of the     *)
(* component and the round trips under way, each with the text it was      *)
(* called with, the reply it got and the text it sent to the synthesis.    *)
(* The guard of handleUserMessage reads the isProcessing of the render its *)
(* caller closed over, so round trips may overlap.                         *)
(***************************************************************************)
\* The utterances followed.
RtUserTexts ==
    {<<"h", "e", "l", "l", "o">>, <<"p", "r", "a", "y">>, <<" ">>}

\* The argument of synthesizeSpeech, were it read from the lastResponse of
\* the render instead of the local aiText.
SynthesisTextFromState(aiText, lastResponse) == lastResponse

\* The argument of synthesizeSpeech: the local aiText.
SynthesisText(aiText, lastResponse) == aiText

RtInit ==
    rt = [isProcessing |-> FALSE, lastResponse |-> <<>>, trips |-> <<>>]

\* handleUserMessage(userText), up to its first await; closureIsProcessing
\* is the isProcessing of the render the caller holds.
RtDispatch(userText, closureIsProcessing) ==
    /\ Len(rt.trips) < MaxTasks
    /\ ~(Trim(userText) = <<>> \/ closureIsProcessing)
    /\ rt' = [rt EXCEPT
            !.isProcessing = TRUE,
            !.lastResponse = <<>>,
            !.trips = Append(@, [userText |-> userText, pc |-> "gen",
                                 aiText |-> <<>>, synthText |-> <<>>])]
    /\ UNCHANGED <<geminiVars, playVars, voiceVars, chatVars, configVars, modalVars>>

\* The generation request of round trip i is answered: aiText is what
\* generateGeminiResponse returns, it is shown and sent to the synthesis.
RtGenSettles(i, resp) ==
    /\ rt.trips[i].pc = "gen"
    /\ LET aiText == generateGeminiResponse(rt.trips[i].userText, resp).value IN
       rt' = [rt EXCEPT
            !.lastResponse = aiText,
            !.trips[i].pc = "synth",
            !.trips[i].aiText = aiText,
            !.trips[i].synthText = SynthesisText(aiText, rt.lastResponse)]
    /\ UNCHANGED <<geminiVars, playVars, voiceVars, chatVars, configVars, modalVars>>

\* Round trip i runs to its end: the finally block.
RtEnds(i) ==
    /\ rt.trips[i].pc = "synth"
    /\ rt' = [rt EXCEPT
            !.isProcessing = FALSE,
            !.trips = SubSeq(@, 1, i - 1) \o SubSeq(@, i + 1, Len(@))]
    /\ UNCHANGED <<geminiVars, playVars, voiceVars, chatVars, configVars, modalVars>>

RtNext ==
    \/ \E userText \in RtUserTexts,
          closureIsProcessing \in {rt.isProcessing, FALSE} :
            RtDispatch(userText, closureIsProcessing)
    \/ \E i \in 1..Len(rt.trips), resp \in GeminiResponses : RtGenSettles(i, resp)
    \/ \E i \in 1..Len(rt.trips) : RtEnds(i)

(***************************************************************************)
(* The API test dialog (components/ApiTestModal.tsx).  modal holds its     *)
(* React state: isOpen (the prop), connectionStatus, isPlayingTest, error  *)
(* ("null", or which text it shows), whether a voice list was loaded, and  *)
(* the runs of testConnection and testVoice under way, each at the await   *)
(* it has reached; a voice run carries the playback it awaits.  The dialog *)
(* stays mounted when it is closed, and so do its runs.                    *)
(***************************************************************************)
\* What the test text field may hold.
ModalTestTexts == {<<"H", "e", "l", "l", "o", "!">>, <<" ">>}

\* How the browser treats the play() of a test: it plays, it refuses for
\* want of a user gesture, or it leaves the element paused.
ModalPlayModes == {"allowed", "NotAllowedError", "silent"}

\* runs without its i-th.
RunsWithout(runs, i) == SubSeq(runs, 1, i - 1) \o SubSeq(runs, i + 1, Len(runs))

\* testConnection(), up to its first await.
testConnection(m) ==
    [m EXCEPT !.connectionStatus = "testing",
              !.error = "null",
              !.runs = Append(@, [kind |-> "connection", pc |-> "test",
                                  pb |-> NoPlayback])]

\* testVoice after its last await: the catch block, if the await threw, and
\* the finally block.
TestVoiceEnds(m, ok) ==
    [(IF ok THEN m ELSE [m EXCEPT !.error = "err.message"])
        EXCEPT !.isPlayingTest = FALSE]

ModalInit ==
    modal = [isOpen |-> FALSE, connectionStatus |-> "idle",
             isPlayingTest |-> FALSE, error |-> "null",
             voicesLoaded |-> FALSE, runs |-> <<>>]

\* The dialog is opened: the effect on isOpen calls testConnection.
ModalOpens ==
    /\ ~modal.isOpen
    /\ Len(modal.runs) < MaxRuns
    /\ modal' = testConnection([modal EXCEPT !.isOpen = TRUE])
    /\ UNCHANGED <<geminiVars, playVars, voiceVars, chatVars, configVars, rtVars>>

\* onClose
ModalCloses ==
    /\ modal.isOpen
    /\ modal' = [modal EXCEPT !.isOpen = FALSE]
    /\ UNCHANGED <<geminiVars, playVars, voiceVars, chatVars, configVars, rtVars>>

\* The Test Connection button, disabled while connectionStatus is testing.
TestConnectionClick ==
    /\ modal.isOpen
    /\ modal.connectionStatus # "testing"
    /\ Len(modal.runs) < MaxRuns
    /\ modal' = testConnection(modal)
    /\ UNCHANGED <<geminiVars, playVars, voiceVars, chatVars, configVars, rtVars>>

\* testApiConnection of run i returns: response.ok, or false from its catch
\* block.  On true the run goes on to loadVoices.
ConnectionTestSettles(i, isConnected) ==
    /\ modal.runs[i].kind = "connection" /\ modal.runs[i].pc = "test"
    /\ modal' = IF isConnected
                THEN [modal EXCEPT !.connectionStatus = "success",
                                   !.runs[i].pc = "voices"]
                ELSE [modal EXCEPT
                        !.connectionStatus = "error",
                        !.error = "Failed to connect to ElevenLabs API. Please check your API key.",
                        !.runs = RunsWithout(@, i)]
    /\ UNCHANGED <<geminiVars, playVars, voiceVars, chatVars, configVars, rtVars>>

\* getAvailableVoices of run i returns or throws; loadVoices catches.
VoicesSettle(i, ok) ==
    /\ modal.runs[i].kind = "connection" /\ modal.runs[i].pc = "voices"
    /\ modal' = IF ok
                THEN [modal EXCEPT !.voicesLoaded = TRUE,
                                   !.runs = RunsWithout(@, i)]
                ELSE [modal EXCEPT !.error = "Failed to load available voices",
                                   !.runs = RunsWithout(@, i)]
    /\ UNCHANGED <<geminiVars, playVars, voiceVars, chatVars, configVars, rtVars>>

\* The Test Voice button, shown on success and disabled while isPlayingTest
\* or while the test text is blank: testVoice, up to its first await.
TestVoiceClick(testText) ==
    /\ modal.isOpen
    /\ modal.connectionStatus = "success"
    /\ ~(modal.isPlayingTest \/ Trim(testText) = <<>>)
    /\ Len(modal.runs) < MaxRuns
    /\ modal' = [modal EXCEPT
                    !.isPlayingTest = TRUE,
                    !.runs = Append(@, [kind |-> "voice", pc |-> "synth",
                                        pb |-> NoPlayback])]
    /\ UNCHANGED <<geminiVars, playVars, voiceVars, chatVars, configVars, rtVars>>

\* synthesizeSpeech of run i returns audio or throws; on audio the run calls
\* playAudioBuffer.
VoiceSynthSettles(i, ok, mode) ==
    /\ modal.runs[i].kind = "voice" /\ modal.runs[i].pc = "synth"
    /\ ok \/ mode = "allowed"
    /\ modal' = IF ok
                THEN [modal EXCEPT !.runs[i].pc = "play",
                                   !.runs[i].pb = playAudioBuffer(mode)]
                ELSE [TestVoiceEnds(modal, FALSE) EXCEPT
                                   !.runs = RunsWithout(@, i)]
    /\ UNCHANGED <<geminiVars, playVars, voiceVars, chatVars, configVars, rtVars>>

\* An event of the playback of run i; if it settles the promise, the run
\* ends.
VoicePlaybackEvent(i, ev) ==
    /\ modal.runs[i].kind = "voice" /\ modal.runs[i].pc = "play"
    /\ PbEnabled(modal.runs[i].pb, ev)
    /\ LET p == PbStep(modal.runs[i].pb, ev) IN
       modal' = IF p.promise # "pending"
                THEN [TestVoiceEnds(modal, p.promise = "resolved") EXCEPT
                                   !.runs = RunsWithout(@, i)]
                ELSE [modal EXCEPT !.runs[i].pb = p]
    /\ UNCHANGED <<geminiVars, playVars, voiceVars, chatVars, configVars, rtVars>>

\* A request of a run is answered.
ModalRequestSettles ==
    \E i \in 1..Len(modal.runs) :
        \/ \E isConnected \in BOOLEAN : ConnectionTestSettles(i, isConnected)
        \/ \E ok \in BOOLEAN : VoicesSettle(i, ok)
        \/ \E ok \in BOOLEAN, mode \in ModalPlayModes : VoiceSynthSettles(i, ok, mode)

\* What the platform is bound to do for a playback: reject the play promise
\* of a play() it refuses, and fire the 30 s timer.
ModalPlatformSettles ==
    \E i \in 1..Len(modal.runs) :
        VoicePlaybackEvent(i, "rejected") \/ VoicePlaybackEvent(i, "timeout")

ModalNext ==
    \/ ModalOpens
    \/ ModalCloses
    \/ TestConnectionClick
    \/ \E testText \in ModalTestTexts : TestVoiceClick(testText)
    \/ ModalRequestSettles
    \/ \E i \in 1..Len(modal.runs), ev \in PbEvents : VoicePlaybackEvent(i, ev)

(***************************************************************************)
(* The specifications.                                                     *)
(***************************************************************************)
Init == GeminiInit /\ PlayInit /\ VoiceInit /\ ChatInit /\ ConfigInit /\ RtInit
    /\ ModalInit

SpecGemini == Init /\ [][GeminiNext]_vars

SpecPlay == Init /\ [][PlayNext]_vars

SpecVoice == Init /\ [][VoiceNext]_vars

SpecChat == Init /\ [][ChatNext]_vars

SpecConfig == Init /\ [][ConfigNext]_vars

SpecRoundTrip == Init /\ [][RtNext]_vars

SpecModal == Init /\ [][ModalNext]_vars

\* Every request is answered, and the platform settles what it is bound to.
SpecModalFair ==
    /\ SpecModal
    /\ WF_vars(ModalRequestSettles)
    /\ WF_vars(ModalPlatformSettles)

\* React runs an effect whose dependencies changed in the last commit.
SpecChatFair == SpecChat /\ WF_vars(SaveEffectRuns)

\* Time passes, the 30 s timer fires when it is due, and the browser settles
\* the play promise of a play() it refuses; nothing makes a media element
\* report ended or error.
SpecPlayFair ==
    /\ SpecPlay
    /\ WF_vars(PlayTick)
    /\ WF_vars(PlayTimeout)
    /\ WF_vars(PlayEvent("rejected"))

(***************************************************************************)
(* The claims.                                                             *)
(***************************************************************************)
\* The character c is the lower-case letter l or its capital.
SameLetter(c, l) ==
    \/ c = l
    \/ \E n \in 1..Len(LowerChars) : LowerChars[n] = l /\ UpperChars[n] = c

\* The keyword k occurs in s, in any mix of capitals and small letters.
Mentions(s, k) ==
    \E i \in 1..(Len(s) - Len(k) + 1) :
        \A j \in 1..Len(k) : SameLetter(s[i + j - 1], k[j])

C8_NeverThrowsNonEmptyOneRequest ==
    /\ gPc # "threw"
    /\ gPc = "returned" => (gValue # <<>> /\ gFetches = 1)

\* C9: when the generation call fails, the reply is chosen from the user text
\* by case-insensitive substring match with fixed precedence: 'verse' or
\* 'scripture' gives the Jeremiah 29:11 reply, otherwise 'pray' the
\* Philippians 4:6 reply, otherwise 'help' or 'guidance' the Proverbs 3:5
\* reply, otherwise the generic one; the four replies are pairwise distinct.
C9_FallbackPrecedence ==
    /\ (gPc = "returned" /\ gFailed) =>
        gValue =
            IF Mentions(gUser, KwVerse) \/ Mentions(gUser, KwScripture)
            THEN FallbackJeremiah
            ELSE IF Mentions(gUser, KwPray)
            THEN FallbackPhilippians
            ELSE IF Mentions(gUser, KwHelp) \/ Mentions(gUser, KwGuidance)
            THEN FallbackProverbs
            ELSE FallbackGeneric
    /\ Cardinality({FallbackJeremiah, FallbackPhilippians,
                    FallbackProverbs, FallbackGeneric}) = 4

\* A failed call whose user text mentions both 'pray' and 'Help' was answered
\* with the Philippians reply.
C9_Witness ==
    /\ gPc = "returned"
    /\ gFailed
    /\ Mentions(gUser, KwPray)
    /\ Includes(gUser, <<"H", "e", "l", "p">>)
    /\ gValue = FallbackPhilippians

\* The round trips (calls of handleUserMessage) among the tasks.
ReplyTasks == {i \in 1..Len(tasks) : tasks[i].kind = "reply"}

\* The tasks whose playback is sounding.
AudibleTasks == {i \in 1..Len(tasks) : PbAudible(tasks[i].pb)}

\* C1: a recognized utterance is dispatched once: of the round trips begun
\* since the latest recognition session started, never more than one exists,
\* so one generation request and one synthesis request are issued for it.
C1_OneDispatchPerUtterance ==
    Cardinality({i \in ReplyTasks : tasks[i].latest}) <= 1

\* C2: at most one round trip is outstanding: of the calls of
\* handleUserMessage, at most one has not yet reached its finally block.
C2_OneRoundTripOutstanding ==
    Cardinality({i \in ReplyTasks : tasks[i].pc # "done"}) <= 1

\* C3: at most one audio playback is active, whatever started it.
C3_OnePlaybackActive == Cardinality(AudibleTasks) <= 1

\* C4: when handleVoiceStart begins a capture (startListening passes its
\* guard and marks the start pending), no playback is playing afterwards.
C4_CaptureStartStopsPlayback ==
    [][(~ref.isStarting /\ ref'.isStarting) =>
            \A i \in 1..Len(tasks') : ~PbAudible(tasks'[i].pb)]_vars

\* The sessions active (started and neither failed nor ended) or being
\* started (start() called, or a permission request or a delayed start in
\* flight).
SessionsActiveOrStarting ==
    (IF eng.rec \in {"starting", "running", "stopping"} THEN 1 ELSE 0)
        + eng.perm + eng.startTimers

\* C5: at most one recognition session is active or being started; a call of
\* startListening while listening or while a start is pending starts nothing
\* and leaves transcript, confidence and the final-transcript buffer as they
\* were; a call of stopListening while not listening changes nothing.
C5_OneSessionGuardedCalls ==
    /\ SessionsActiveOrStarting <= 1
    /\ StartRefused(World) => startListening(World) = World
    /\ ~hk.isListening => stopListening(World) = World

\* The banners handleUserMessage shows for a connectivity failure of the
\* synthesis stage: endpoint unreachable or non-2xx.
ConnectivityBanners ==
    {ErrorBanner(r.message) : r \in {s \in SynthResponses : ~s.ok}}

\* C10: when the playback of a round trip is refused for want of a user
\* gesture, the banner set is not one that a connectivity failure sets.
C10_BannerMatchesCategory ==
    [][\A i \in 1..Len(tasks) :
            (tasks[i].kind = "reply" /\ tasks[i].pc = "play"
                /\ tasks[i].pb.mode = "NotAllowedError"
                /\ PlaybackEvent(i, "rejected"))
            => app'.error \notin ConnectivityBanners]_vars

\* C6: the session list is ordered by recency: no session was updated later
\* than the first of the list.
C6_MostRecentSessionFirst ==
    \A k \in 1..Len(chat.sessions) :
        chat.sessions[1].timestamp >= chat.sessions[k].timestamp

\* The answers of the synthesis endpoint with a non-2xx status.
Non2xxResponses ==
    {r \in SynthResponses :
        ~r.ok /\ Includes(r.message, <<"A", "P", "I", " ", "e", "r", "r", "o", "r">>)}

MessageLists ==
    {chat.messages} \cup {chat.sessions[k].messages : k \in 1..Len(chat.sessions)}

\* C12: the message identifiers within one session's message list are
\* pairwise distinct.
C12_MessageIdsDistinct ==
    \A l \in MessageLists :
        \A i, j \in 1..Len(l) : l[i] = l[j] => i = j

\* C13: two sessions have distinct identifiers and independent message
\* lists: the identifiers of the session list are pairwise distinct, and a
\* step leaves every session but the current one stored with the message
\* list it had, unless the user deletes it.
C13_SessionsIndependent ==
    [][/\ \A i, j \in 1..Len(chat'.sessions) :
            chat'.sessions[i].id = chat'.sessions[j].id => i = j
       /\ \A k \in 1..Len(chat.sessions) :
            chat.sessions[k].id # chat'.currentSessionId
            => \/ \E j \in 1..Len(chat'.sessions) :
                    /\ chat'.sessions[j].id = chat.sessions[k].id
                    /\ chat'.sessions[j].messages = chat.sessions[k].messages
               \/ DeleteSession(k)]_vars

\* Two sessions are stored and a message was appended to the current one,
\* the first of the list, after its first message.
C13_Witness ==
    /\ Len(chat.sessions) = 2
    /\ chat.sessions[1].id = chat.currentSessionId
    /\ Len(chat.sessions[1].messages) = 2
    /\ Len(chat.sessions[2].messages) > 0

\* The world the component is left in when the session reports the error
\* kind now: the error handler, then the render and its effects.
AfterRecError(kind) == Flush(Snapshot(World), HookOnError(World, kind))

\* C14: after a recognition error of kind not-allowed or network the
\* transcript of the hook is empty, it is still empty after the end event
\* that follows, and neither event hands a text to handleUserMessage.
C14_FatalErrorDropsTranscript ==
    eng.rec \in {"starting", "running", "stopping"} =>
        \A kind \in {"not-allowed", "network"} :
            LET afterError == [AfterRecError(kind) EXCEPT !.calls = <<>>]
                afterEnd == Flush(Snapshot(afterError), HookOnEnd(afterError))
            IN /\ afterError.hk.transcript = <<>>
               /\ HookOnEnd(afterError).hk.transcript = <<>>
               /\ AfterRecError(kind).calls = <<>>
               /\ afterEnd.calls = <<>>

\* C15: the recognition errors no-speech and aborted leave the transcript
\* unchanged on every platform.
C15_BenignErrorKeepsTranscript ==
    eng.rec \in {"starting", "running", "stopping"} =>
        \A kind \in {"no-speech", "aborted"} :
            HookOnError(World, kind).hk.transcript = hk.transcript

\* C16: when the microphone permission is denied on a start made by the
\* user, an error banner is set and the capture is idle again: isListening
\* false and no start pending.
C16_PermissionDeniedShowsBanner ==
    [][PermissionSettles(FALSE)
            => /\ app'.error # "null"
               /\ ~hk'.isListening
               /\ ~ref'.isStarting]_vars

\* The stored entry is an object that has a non-empty string under key.
HasStored(stored, key) ==
    stored.kind = "object" /\ stored[key] \notin {"undefined", ""}

\* C17: synthesizeSpeech takes each of API key, voice id and voice settings
\* from the argument if one is given, else from the stored entry, else from
\* the built-in default; an entry that is absent, is not JSON or lacks the
\* field gives the default, and the lookup raises no exception.
C17_ConfigPrecedence ==
    [][\A args \in SynthArgs :
            SynthesizeResolves(args) =>
                LET stored == cfg.stored
                    out == cfg'.out
                IN /\ ~out.threw
                   /\ out.apiKey =
                        IF args.testApiKey = "argument" THEN "argument"
                        ELSE IF HasStored(stored, "apiKey") THEN stored.apiKey
                        ELSE ELEVENLABS_API_KEY
                   /\ out.finalVoiceId =
                        IF args.voiceId = "argument" THEN "argument"
                        ELSE IF HasStored(stored, "voiceId") THEN stored.voiceId
                        ELSE DEFAULT_VOICE_ID
                   /\ out.finalVoiceSettings =
                        IF args.voiceSettings.given
                        THEN args.voiceSettings.value
                        ELSE IF stored.kind = "object"
                                /\ stored.voiceSettings.present
                        THEN JsonParseSettings(stored.voiceSettings.text)
                        ELSE defaultVoiceSettings]_vars

\* A call has resolved the defaults while the entry is not JSON.
C17_Witness ==
    /\ cfg.stored.kind = "malformed"
    /\ cfg.out.called
    /\ cfg.out.apiKey = ELEVENLABS_API_KEY
    /\ cfg.out.finalVoiceId = DEFAULT_VOICE_ID
    /\ cfg.out.finalVoiceSettings = defaultVoiceSettings

\* C18: a VoiceSettings object written to the stored configuration and read
\* back by getVoiceSettings has the same stability, similarity_boost, style
\* and use_speaker_boost, also when a value is 0 or false.
C18_VoiceSettingsRoundTrip ==
    [][\A apiKey \in {"", "stored"}, voiceId \in {"stored"},
          voiceSettings \in VoiceSettingsValues :
            SaveConfig(apiKey, voiceId, voiceSettings)
            => getVoiceSettings(cfg'.stored) =
                    [threw |-> FALSE, value |-> voiceSettings]]_vars

\* Settings with stability 0 and use_speaker_boost false are stored and
\* read back.
C18_Witness ==
    /\ cfg.stored.kind = "object"
    /\ cfg.stored.voiceSettings.present
    /\ getVoiceSettings(cfg.stored).value.stability = JsNumber(0)
    /\ getVoiceSettings(cfg.stored).value.use_speaker_boost = JsBoolean(FALSE)

\* C19: in every round trip the text passed to synthesizeSpeech is the
\* string the generation client returned for the utterance of that round
\* trip, a canned reply included, also when round trips overlap.
C19_SynthesisGetsReply ==
    [][\A i \in 1..Len(rt.trips), resp \in GeminiResponses :
            RtGenSettles(i, resp)
            => rt'.trips[i].synthText =
                    generateGeminiResponse(rt.trips[i].userText, resp).value]_vars

\* Two round trips overlap and have sent different texts to the synthesis,
\* one of them a canned reply.
C19_Witness ==
    /\ Len(rt.trips) = 2
    /\ rt.trips[1].pc = "synth" /\ rt.trips[2].pc = "synth"
    /\ rt.trips[1].synthText = GeminiFallback(rt.trips[1].userText)
    /\ rt.trips[2].synthText # rt.trips[1].synthText

\* The tasks of a kind that await the answer to a request of theirs.
Requests(ts, kind, pc) == {i \in 1..Len(ts) : ts[i].kind = kind /\ ts[i].pc = pc}

\* Round trip i ends in its catch block in this step: its synthesis request
\* fails, or its playback is refused or breaks off.
RoundTripFails(i) ==
    /\ tasks[i].kind = "reply"
    /\ \/ \E resp \in SynthResponses : ~resp.ok /\ SynthSettles(i, resp, "allowed")
       \/ /\ tasks[i].pc = "play"
          /\ \E ev \in TaskPbEvents :
                /\ PbEnabled(tasks[i].pb, ev)
                /\ PbStep(tasks[i].pb, ev).promise = "rejected"
                /\ PlaybackEvent(i, ev)

\* C20: nothing is retried automatically.  The synthesis of the welcome
\* greeting is requested at most once: only while no greeting has been
\* requested, and from the request on isPlayingGreeting or hasPlayedGreeting
\* holds, whether it succeeds or fails.  The step in which a round trip
\* fails sends no generation and no synthesis request.
C20_NothingRetried ==
    [][/\ Cardinality(Requests(tasks', "welcome", "synth"))
                > Cardinality(Requests(tasks, "welcome", "synth"))
            => /\ \A i \in 1..Len(tasks) : tasks[i].kind # "welcome"
               /\ ~app.isPlayingGreeting /\ ~app.hasPlayedGreeting
               /\ app'.isPlayingGreeting
       /\ (app.isPlayingGreeting \/ app.hasPlayedGreeting)
            => (app'.isPlayingGreeting \/ app'.hasPlayedGreeting)
       /\ \A i \in 1..Len(tasks) :
            RoundTripFails(i)
            => /\ Cardinality(Requests(tasks', "reply", "gen"))
                    = Cardinality(Requests(tasks, "reply", "gen"))
               /\ Cardinality(Requests(tasks', "reply", "synth"))
                    <= Cardinality(Requests(tasks, "reply", "synth"))]_vars

\* The greeting has run to its end, a round trip has failed, and nothing is in
\* flight.
C20_Witness ==
    /\ app.hasPlayedGreeting /\ ~app.isPlayingGreeting
    /\ app.error # "null" /\ ~app.isProcessing
    /\ tasks = <<>>


\* C21: on iOS, when the 10 second timer set by onstart fires while the
\* session is still running, the callback calls recognition.stop(): the
\* session is no longer running after the callback.
C21_IosTimeoutStopsSession ==
    [][(IosTimeoutFires /\ eng.isIOS /\ eng.rec = "running")
            => eng'.rec # "running"]_vars

\* A step in which handleUserMessage dispatches a round trip.
Dispatches ==
    \/ ~app.isProcessing /\ app'.isProcessing
    \/ Cardinality(Requests(tasks', "reply", "gen"))
            > Cardinality(Requests(tasks, "reply", "gen"))

\* A step in which the user starts a capture from the button or the screen.
StartsCaptureFromUI == (VoiceButton /\ ~app.isRecording) \/ ScreenTap

\* C22: a capture is started from the button or by a screen tap only in a
\* state where isProcessing and isPlayingAudio are both false, and a round
\* trip is dispatched only in a commit whose isListening is false.
C22_PhasesGuarded ==
    [][/\ StartsCaptureFromUI => ~app.isProcessing /\ ~app.isPlayingAudio
       /\ Dispatches => ~hk'.isListening]_vars

\* C22 witness: a round trip was dispatched after a capture started from
\* the UI has ended.
C22_Witness ==
    /\ app.isProcessing /\ ~hk.isListening
    /\ Requests(tasks, "reply", "gen") # {}

\* The stored session that has the current session id holds list.
StoredAsCurrent(c, list) ==
    c.currentSessionId # 0 =>
        \E k \in 1..Len(c.sessions) :
            /\ c.sessions[k].id = c.currentSessionId
            /\ c.sessions[k].messages = list

\* C23: startNewSession and loadSession leave every round trip in flight,
\* and the reply of a round trip is appended, when it arrives, to the
\* message list shown at that time, whichever session the list belongs to;
\* the list with the reply is what is stored for the current session.
C23_ReplyGoesToCurrentList ==
    [][/\ (startNewSession \/ \E k \in 1..Len(chat.sessions) : loadSession(k))
            => chat'.inflight = chat.inflight
       /\ ChatReply(TRUE)
            => /\ chat'.messages = Append(chat.messages, now + 1)
               /\ StoredAsCurrent(chat', chat'.messages)]_vars

\* C23 witness: the user started a new session while a round trip was
\* outstanding, and its reply is the only message of the new list.
C23_Witness ==
    /\ chat.currentSessionId = 0
    /\ chat.inflight = 0
    /\ Len(chat.messages) = 1
    /\ Len(chat.sessions) > 0

\* C24: when the user deletes a session from the history, the session list
\* that results has no session of that id, also when the deleted session is
\* the current one.
C24_DeletedSessionAbsent ==
    [][\A k \in 1..Len(chat.sessions) :
            DeleteSession(k)
            => \A j \in 1..Len(chat'.sessions) :
                    chat'.sessions[j].id # chat.sessions[k].id]_vars

\* C25: once handleUserMessage has finished, by whatever path, the playback
\* flag is cleared: isPlayingAudio is true only while some round trip
\* awaits its playAudioBuffer.
C25_PlaybackFlagCleared ==
    Requests(tasks, "reply", "play") = {} => ~app.isPlayingAudio

\* C26: the save effect comes to rest: whenever a run of it has written the
\* session list, a state follows in which no further run is due.
C26_SaveEffectQuiesces == chat.saveDue ~> ~chat.saveDue

\* C27: every promise playAudioBuffer returns settles in the end, also when
\* the playback has started and then stalls or is paused without ended or
\* error; and the object URL is revoked at most once.
C27_PlaybackPromiseSettles ==
    /\ (pb.promise = "pending") ~> (pb.promise # "pending")
    /\ [](pb.revoked <= 1)

\* C28: when stopListening is called while a start is pending (the
\* permission is being asked or the start timer is set), the start is
\* cancelled: the timer's callback does not begin a session.
C28_StopCancelsPendingStart ==
    (ref.isStarting /\ ~hk.isListening) =>
        LET stopped == stopListening(World) IN
        /\ (eng.startTimers > 0 /\ eng.rec = "idle")
                => HookOnStartTimer(stopped).eng.rec # "starting"
        /\ (eng.perm > 0 /\ eng.rec = "idle")
                => HookOnStartTimer(HookOnPermission(stopped, TRUE)).eng.rec
                        # "starting"

\* Something is under way that will clear isStartingRef: the permission
\* request, the start timer, or a session that was asked to start.
StartUnderWay(e) == e.perm > 0 \/ e.startTimers > 0 \/ e.rec = "starting"

\* C29: isStartingRef is cleared on every path that follows startListening:
\* it is true only while the start is under way, and it is false after the
\* session reported started, after start() threw, after the permission was
\* denied and after a recognition error or end, so that the flag does not
\* refuse a later startListening.
C29_StartingFlagCleared ==
    [][/\ ref'.isStarting => StartUnderWay(eng')
       /\ (\/ RecStarted
           \/ PermissionSettles(FALSE)
           \/ RecEnded
           \/ \E kind \in RecErrors : RecError(kind)) => ~ref'.isStarting
       /\ StartTimerFires => (ref'.isStarting => eng'.rec = "starting")
       /\ (~StartUnderWay(eng') /\ ~hk'.isListening)
            => ~StartRefused(World')]_vars

\* C29 witness: a session that startListening asked for has reported
\* started, and the flag is cleared.
C29_Witness ==
    /\ hk.isListening /\ eng.rec = "running"
    /\ ~ref.isStarting

\* C30: in the API test dialog every run of testConnection leaves
\* connectionStatus at success or error, not at testing, and every run of
\* testVoice sets isPlayingTest back to false, whatever the connection test,
\* the voice listing, the synthesis and the playback do.
C30_ModalRunsEnd ==
    /\ (modal.connectionStatus = "testing")
            ~> (modal.connectionStatus \in {"success", "error"})
    /\ modal.isPlayingTest ~> ~modal.isPlayingTest

====
